---- MODULE Spec2Model ----
(***************************************************************************)
(* A model of AIEthicsFramework (src/PYAIGuardian.py).                     *)
(*                                                                         *)
(* One call into the framework is in progress at a time.  `entry' names    *)
(* the public method that was called and `pc' the position inside it.      *)
(* The model's predict is an opaque collaborator: every call of it may     *)
(* raise, and an opaque model may answer any label vector.                 *)
(* Numbers that numpy computes as floats (means, differences) are exact    *)
(* fractions <<n, d>> in lowest terms with d > 0.                          *)
(***************************************************************************)
EXTENDS Integers, Sequences, FiniteSets, TLC

VARIABLES entry, pc, outcome, result, model, data, sensitive_attributes,
          predictions, predLog, attr_idx, group_acceptance_rates,
          demographic_parity, fairness_metrics, test_data, perturbed_data,
          original_predictions, perturbed_predictions, checklist,
          documentation, principles

vars == <<entry, pc, outcome, result, model, data, sensitive_attributes,
          predictions, predLog, attr_idx, group_acceptance_rates,
          demographic_parity, fairness_metrics, test_data, perturbed_data,
          original_predictions, perturbed_predictions, checklist,
          documentation, principles>>

(***************************************************************************)
(* Bounds of the model.                                                    *)
(***************************************************************************)
\* largest number of records in the dataset given to assess_fairness
MaxRecords == 3
\* largest number of records in the test dataset given to assess_robustness
MaxTest == 2
\* largest number of fragments a documentation text is built from
MaxPieces == 2

(***************************************************************************)
(* Exact fractions.                                                        *)
(***************************************************************************)
Abs(n) == IF n < 0 THEN -n ELSE n

RECURSIVE GCD(_, _)
GCD(a, b) == IF b = 0 THEN a ELSE GCD(b, a % b)

RNorm(p) == LET g == GCD(Abs(p[1]), p[2]) IN <<p[1] \div g, p[2] \div g>>

RSub(p, q) == RNorm(<<p[1] * q[2] - q[1] * p[2], p[2] * q[2]>>)

RAdd(p, q) == RNorm(<<p[1] * q[2] + q[1] * p[2], p[2] * q[2]>>)

RLe(p, q) == p[1] * q[2] <= q[1] * p[2]

ROne == <<1, 1>>

RZero == <<0, 1>>

\* Python's max() and min() over the values of a dict
PyMax(S) == CHOOSE p \in S : \A q \in S : RLe(q, p)

PyMin(S) == CHOOSE p \in S : \A q \in S : RLe(p, q)

RECURSIVE SumOver(_, _)
SumOver(v, S) ==
    IF S = {} THEN 0
    ELSE LET i == CHOOSE j \in S : TRUE IN v[i] + SumOver(v, S \ {i})

\* np.mean(v[mask]) for a mask that selects the indices S (S is not empty)
NpMean(v, S) == RNorm(<<SumOver(v, S), Cardinality(S)>>)

(***************************************************************************)
(* The class: the methods that the class body defines.                     *)
(***************************************************************************)
ClassMethods ==
    {"__init__", "assess_fairness", "_calculate_demographic_parity",
     "assess_transparency", "_check_model_architecture_disclosure",
     "assess_privacy", "_check_data_minimization", "assess_robustness",
     "_check_adversarial_robustness", "evaluate"}

\* getattr(self, name): does the attribute lookup succeed
HasMethod(name) == name \in ClassMethods

None == [kind |-> "none"]

(***************************************************************************)
(* Inputs.                                                                 *)
(***************************************************************************)
Regions == {"A", "B", "C"}

Genders == {"F", "M"}

Attributes == {"region", "gender"}

Records == [region : Regions, gender : Genders]

SeqsUpTo(S, n) == UNION {[1..m -> S] : m \in 1..n}

\* The code reads group values only through equality, so renaming the
\* groups changes nothing: the first record is taken to be (A, F).
Datasets ==
    {ds \in SeqsUpTo(Records, MaxRecords) :
        ds[1] = [region |-> "A", gender |-> "F"]}

\* the lists of sensitive attributes a caller may request
AttributeLists ==
    {<<>>, <<"region">>, <<"gender">>, <<"region", "gender">>}

\* the labels model.predict may answer: those of a three-class classifier
PredVals == {0, 1, 2}

\* a model that answers the same label for every input, or an opaque model
Models ==
    {[kind |-> "const", label |-> c] : c \in PredVals}
        \cup {[kind |-> "opaque", label |-> 0]}

\* the label vectors model.predict may return for a dataset of n records
ModelOutputs(m, n) ==
    IF m.kind = "const" THEN {[i \in 1..n |-> m.label]}
    ELSE [1..n -> PredVals]

\* model.predict(ds): it raises, or it returns one label per record
Predict(m, ds) ==
    {[raised |-> TRUE, vec |-> <<>>]}
        \cup {[raised |-> FALSE, vec |-> v] : v \in ModelOutputs(m, Len(ds))}

(***************************************************************************)
(* _calculate_demographic_parity                                           *)
(***************************************************************************)
\* data[attribute].unique()
Unique(ds, a) == {ds[i][a] : i \in 1..Len(ds)}

\* data[attribute] == group, as the set of selected indices
GroupMask(ds, a, g) == {i \in 1..Len(ds) : ds[i][a] = g}

\* the dict group_acceptance_rates built by the inner loop
GroupRates(ds, a, preds) ==
    [g \in Unique(ds, a) |-> NpMean(preds, GroupMask(ds, a, g))]

RateValues(rates) == {rates[g] : g \in DOMAIN rates}

MaxDiff(rates) == RSub(PyMax(RateValues(rates)), PyMin(RateValues(rates)))

\* a variant that forgets to subtract the smallest rate: 1 - max(rates)
ParityScore_NoMin(rates) == RSub(ROne, PyMax(RateValues(rates)))

\* 1 - max_diff
ParityScore(rates) == RSub(ROne, MaxDiff(rates))

\* d[key] = value on a Python dict
DictSet(d, key, value) ==
    [x \in (DOMAIN d) \cup {key} |-> IF x = key THEN value ELSE d[x]]

EmptyDict == [x \in {} |-> 0]

LogPredict(arg, o) ==
    predLog' = Append(predLog, [arg |-> arg, raised |-> o.raised, ret |-> o.vec])

\* an exception leaves the call: nothing is returned
Raise(err) ==
    /\ pc' = "done"
    /\ outcome' = err
    /\ result' = None

FairnessLocals == <<attr_idx, group_acceptance_rates, demographic_parity,
                    fairness_metrics>>

RobustnessLocals == <<test_data, perturbed_data, original_predictions,
                      perturbed_predictions, checklist>>

\* assess_fairness(model, data, sensitive_attributes) is called
CallAssessFairness ==
    /\ pc = "idle"
    /\ \E m \in Models, ds \in Datasets, attrs \in AttributeLists :
          /\ model' = m
          /\ data' = ds
          /\ sensitive_attributes' = attrs
    /\ entry' = "assess_fairness"
    /\ fairness_metrics' = EmptyDict
    /\ pc' = "dp_predict"
    /\ UNCHANGED <<outcome, result, predictions, predLog, attr_idx,
                   group_acceptance_rates, demographic_parity, documentation,
                   principles>>
    /\ UNCHANGED RobustnessLocals

\* predictions = model.predict(data); demographic_parity = {}
\* (overall_acceptance_rate is computed here and never read)
DPPredict ==
    /\ pc = "dp_predict"
    /\ \E o \in Predict(model, data) :
          /\ LogPredict("data", o)
          /\ IF o.raised
             THEN /\ Raise("PredictError")
                  /\ UNCHANGED <<predictions, demographic_parity, attr_idx>>
             ELSE /\ predictions' = o.vec
                  /\ demographic_parity' = EmptyDict
                  /\ attr_idx' = 1
                  /\ pc' = "dp_loop"
                  /\ UNCHANGED <<outcome, result>>
    /\ UNCHANGED <<entry, model, data, sensitive_attributes,
                   group_acceptance_rates, fairness_metrics, documentation,
                   principles>>
    /\ UNCHANGED RobustnessLocals

\* a variant that asks the model again in every iteration of the loop
DPAttribute_Repredict ==
    /\ pc = "dp_loop"
    /\ attr_idx <= Len(sensitive_attributes)
    /\ \E v \in ModelOutputs(model, Len(data)) :
          /\ LogPredict("data", [raised |-> FALSE, vec |-> v])
          /\ LET attribute == sensitive_attributes[attr_idx]
                 rates == GroupRates(data, attribute, v)
             IN /\ group_acceptance_rates' = rates
                /\ demographic_parity' =
                      DictSet(demographic_parity, attribute, ParityScore(rates))
    /\ attr_idx' = attr_idx + 1
    /\ UNCHANGED <<entry, pc, outcome, result, model, data,
                   sensitive_attributes, predictions, fairness_metrics,
                   documentation, principles>>
    /\ UNCHANGED RobustnessLocals

\* one iteration of `for attribute in sensitive_attributes'
DPAttribute ==
    /\ pc = "dp_loop"
    /\ attr_idx <= Len(sensitive_attributes)
    /\ LET attribute == sensitive_attributes[attr_idx]
           rates == GroupRates(data, attribute, predictions)
       IN /\ group_acceptance_rates' = rates
          /\ demographic_parity' =
                DictSet(demographic_parity, attribute, ParityScore(rates))
    /\ attr_idx' = attr_idx + 1
    /\ UNCHANGED <<entry, pc, outcome, result, model, data,
                   sensitive_attributes, predictions, predLog,
                   fairness_metrics, documentation, principles>>
    /\ UNCHANGED RobustnessLocals

\* return demographic_parity; fairness_metrics['demographic_parity'] = ...
DPReturn ==
    /\ pc = "dp_loop"
    /\ attr_idx > Len(sensitive_attributes)
    /\ fairness_metrics' =
          DictSet(fairness_metrics, "demographic_parity", demographic_parity)
    /\ pc' = "equal_opportunity"
    /\ UNCHANGED <<entry, outcome, result, model, data, sensitive_attributes,
                   predictions, predLog, attr_idx, group_acceptance_rates,
                   demographic_parity, documentation, principles>>
    /\ UNCHANGED RobustnessLocals

\* self._calculate_equal_opportunity: the class defines no such method
EqualOpportunityLookup ==
    /\ pc = "equal_opportunity"
    /\ ~HasMethod("_calculate_equal_opportunity")
    /\ Raise("AttributeError")
    /\ UNCHANGED <<entry, model, data, sensitive_attributes, predictions,
                   predLog, documentation, principles>>
    /\ UNCHANGED FairnessLocals
    /\ UNCHANGED RobustnessLocals

(***************************************************************************)
(* _check_adversarial_robustness and assess_robustness                     *)
(***************************************************************************)
\* values of a numeric feature field and codes of a sensitive field; the
\* models here do not read the features, so one feature value is enough
FeatVals == {1}

CodeVals == {0, 1}

\* the draws of np.random.normal(0, epsilon, ...), in units of the noise
NoiseVals == {0, 1}

\* a record of the test dataset: a numeric feature x and a sensitive
\* attribute s stored as a numeric code
TestRecords == [x : FeatVals, s : CodeVals]

TestDatasets == SeqsUpTo(TestRecords, MaxTest)

\* np.random.normal(0, epsilon, test_data.shape): one draw per cell
NoiseDraws(n) == [1..n -> [x : NoiseVals, s : NoiseVals]]

\* test_data + noise: elementwise over every cell, building a new object
AddNoise(td, noise) ==
    [i \in 1..Len(td) |-> [x |-> td[i].x + noise[i].x, s |-> td[i].s + noise[i].s]]

\* a variant that counts the records whose label changed
Agreement_Changed(orig, pert) ==
    RNorm(<<Cardinality({i \in 1..Len(orig) : orig[i] # pert[i]}), Len(orig)>>)

\* np.mean(original_predictions == perturbed_predictions)
Agreement(orig, pert) ==
    RNorm(<<Cardinality({i \in 1..Len(orig) : orig[i] = pert[i]}), Len(orig)>>)

\* assess_robustness(model, test_data) is called
CallAssessRobustness ==
    /\ pc = "idle"
    /\ \E m \in Models, td \in TestDatasets :
          /\ model' = m
          /\ test_data' = td
    /\ entry' = "assess_robustness"
    /\ pc' = "perturb"
    /\ UNCHANGED <<outcome, result, data, sensitive_attributes, predictions,
                   predLog, perturbed_data, original_predictions,
                   perturbed_predictions, checklist, documentation,
                   principles>>
    /\ UNCHANGED FairnessLocals

\* perturbed_data = test_data + np.random.normal(0, epsilon, test_data.shape)
Perturb ==
    /\ pc = "perturb"
    /\ \E noise \in NoiseDraws(Len(test_data)) :
          perturbed_data' = AddNoise(test_data, noise)
    /\ pc' = "predict_original"
    /\ UNCHANGED <<entry, outcome, result, model, data, sensitive_attributes,
                   predictions, predLog, test_data, original_predictions,
                   perturbed_predictions, checklist, documentation,
                   principles>>
    /\ UNCHANGED FairnessLocals

\* original_predictions = model.predict(test_data)
PredictOriginal ==
    /\ pc = "predict_original"
    /\ \E o \in Predict(model, test_data) :
          /\ LogPredict("test_data", o)
          /\ IF o.raised
             THEN /\ Raise("PredictError")
                  /\ UNCHANGED original_predictions
             ELSE /\ original_predictions' = o.vec
                  /\ pc' = "predict_perturbed"
                  /\ UNCHANGED <<outcome, result>>
    /\ UNCHANGED <<entry, model, data, sensitive_attributes, predictions,
                   test_data, perturbed_data, perturbed_predictions,
                   checklist, documentation, principles>>
    /\ UNCHANGED FairnessLocals

\* a variant that swallows the error of predict and scores the check with
\* the original predictions
PredictPerturbed_Swallow ==
    /\ pc = "predict_perturbed"
    /\ \E o \in Predict(model, perturbed_data) :
          /\ LogPredict("perturbed_data", o)
          /\ perturbed_predictions' =
                IF o.raised THEN original_predictions ELSE o.vec
    /\ pc' = "score"
    /\ UNCHANGED <<entry, outcome, result, model, data, sensitive_attributes,
                   predictions, test_data, perturbed_data,
                   original_predictions, checklist, documentation,
                   principles>>
    /\ UNCHANGED FairnessLocals

\* perturbed_predictions = model.predict(perturbed_data)
PredictPerturbed ==
    /\ pc = "predict_perturbed"
    /\ \E o \in Predict(model, perturbed_data) :
          /\ LogPredict("perturbed_data", o)
          /\ IF o.raised
             THEN /\ Raise("PredictError")
                  /\ UNCHANGED perturbed_predictions
             ELSE /\ perturbed_predictions' = o.vec
                  /\ pc' = "score"
                  /\ UNCHANGED <<outcome, result>>
    /\ UNCHANGED <<entry, model, data, sensitive_attributes, predictions,
                   test_data, perturbed_data, original_predictions,
                   checklist, documentation, principles>>
    /\ UNCHANGED FairnessLocals

\* robustness_score = np.mean(...); return robustness_score: the first
\* element of the checklist of assess_robustness
AdversarialScore ==
    /\ pc = "score"
    /\ checklist' = <<Agreement(original_predictions, perturbed_predictions)>>
    /\ pc' = "out_of_distribution"
    /\ UNCHANGED <<entry, outcome, result, model, data, sensitive_attributes,
                   predictions, predLog, test_data, perturbed_data,
                   original_predictions, perturbed_predictions,
                   documentation, principles>>
    /\ UNCHANGED FairnessLocals

\* self._check_out_of_distribution_performance: the class defines no such
\* method
OutOfDistributionLookup ==
    /\ pc = "out_of_distribution"
    /\ ~HasMethod("_check_out_of_distribution_performance")
    /\ Raise("AttributeError")
    /\ UNCHANGED <<entry, model, data, sensitive_attributes, predictions,
                   predLog, documentation, principles>>
    /\ UNCHANGED FairnessLocals
    /\ UNCHANGED RobustnessLocals

(***************************************************************************)
(* The keyword checks.  A text is a sequence of characters.                *)
(***************************************************************************)
UpperCase ==
    <<"A","B","C","D","E","F","G","H","I","J","K","L","M",
      "N","O","P","Q","R","S","T","U","V","W","X","Y","Z">>

LowerCase ==
    <<"a","b","c","d","e","f","g","h","i","j","k","l","m",
      "n","o","p","q","r","s","t","u","v","w","x","y","z">>

\* the lower-case letter of every upper-case letter
LowerOf ==
    [c \in {UpperCase[i] : i \in 1..Len(UpperCase)} |->
        LowerCase[CHOOSE i \in 1..Len(UpperCase) : UpperCase[i] = c]]

LowerChar(c) == IF c \in DOMAIN LowerOf THEN LowerOf[c] ELSE c

\* str.lower()
Lower(s) == [i \in 1..Len(s) |-> LowerChar(s[i])]

\* `sub in s' on Python strings
Contains(s, sub) ==
    \E i \in 1..(Len(s) - Len(sub) + 1) : SubSeq(s, i, i + Len(sub) - 1) = sub

\* a variant that does not lower the text: the comparison is case-sensitive
KeywordScore_CaseSensitive(keywords, text) ==
    RNorm(<<Cardinality({j \in 1..Len(keywords) :
                            Contains(text, Lower(keywords[j]))}),
            Len(keywords)>>)

\* sum(1 for keyword in keywords if keyword.lower() in text.lower()),
\* divided by len(keywords)
KeywordScore(keywords, text) ==
    RNorm(<<Cardinality({j \in 1..Len(keywords) :
                            Contains(Lower(text), Lower(keywords[j]))}),
            Len(keywords)>>)

ArchitectureKeywords ==
    <<<<"a","r","c","h","i","t","e","c","t","u","r","e">>,
      <<"l","a","y","e","r","s">>,
      <<"n","e","u","r","o","n","s">>,
      <<"a","c","t","i","v","a","t","i","o","n"," ","f","u","n","c","t","i","o","n","s">>>>

MinimizationKeywords ==
    <<<<"d","a","t","a"," ","m","i","n","i","m","i","z","a","t","i","o","n">>,
      <<"c","o","l","l","e","c","t"," ","o","n","l","y"," ","n","e","c","e","s","s","a","r","y">>,
      <<"l","i","m","i","t"," ","d","a","t","a"," ","c","o","l","l","e","c","t","i","o","n">>>>

\* the fragments the documentation texts are built from
Fragments ==
    {<<"A","r","c","h","i","t","e","c","t","u","r","e">>,
     <<"L","A","Y","E","R","S"," ","a","n","d"," ","N","e","u","r","o","n",
       "s">>,
     <<"A","R","C","H","I","T","E","C","T","U","R","E",","," ","a","c","t",
       "i","v","a","t","i","o","n"," ","f","u","n","c","t","i","o","n","s">>,
     <<"a","r","c","h","i","t","e","c","t","u","r">>,
     <<"n","o"," ","d","e","t","a","i","l","s","."," ">>,
     <<"D","a","t","a"," ","M","i","n","i","m","i","z","a","t","i","o","n">>,
     <<"W","e"," ","c","o","l","l","e","c","t"," ","o","n","l","y"," ","n",
       "e","c","e","s","s","a","r","y"," ","f","i","e","l","d","s",";"," ",
       "L","I","M","I","T"," ","D","A","T","A"," ","C","O","L","L","E","C",
       "T","I","O","N">>,
     <<"d","a","t","a"," ","m","i","n","i","m","i","s","a","t","i","o","n">>,
     <<"e">>}

RECURSIVE TextsOf(_)
TextsOf(n) ==
    IF n = 0 THEN {<<>>}
    ELSE TextsOf(n - 1) \cup {t \o f : t \in TextsOf(n - 1), f \in Fragments}

Texts == TextsOf(MaxPieces)

ChecklistUnchanged ==
    /\ UNCHANGED <<model, data, sensitive_attributes, predictions, predLog,
                   principles>>
    /\ UNCHANGED FairnessLocals
    /\ UNCHANGED RobustnessLocals

\* _check_model_architecture_disclosure(documentation)
CheckModelArchitectureDisclosure ==
    /\ pc = "idle"
    /\ \E text \in Texts :
          /\ documentation' = text
          /\ result' = [kind |-> "score",
                        val |-> KeywordScore(ArchitectureKeywords, text)]
    /\ entry' = "_check_model_architecture_disclosure"
    /\ outcome' = "returned"
    /\ pc' = "done"
    /\ ChecklistUnchanged

\* _check_data_minimization(procedures)
CheckDataMinimization ==
    /\ pc = "idle"
    /\ \E text \in Texts :
          /\ documentation' = text
          /\ result' = [kind |-> "score",
                        val |-> KeywordScore(MinimizationKeywords, text)]
    /\ entry' = "_check_data_minimization"
    /\ outcome' = "returned"
    /\ pc' = "done"
    /\ ChecklistUnchanged

(***************************************************************************)
(* __init__ and evaluate                                                   *)
(***************************************************************************)
\* the dict literal of __init__, in the order it is evaluated
PrincipleRegistry ==
    <<[name |-> "fairness", method |-> "assess_fairness"],
      [name |-> "transparency", method |-> "assess_transparency"],
      [name |-> "accountability", method |-> "assess_accountability"],
      [name |-> "privacy", method |-> "assess_privacy"],
      [name |-> "safety", method |-> "assess_safety"],
      [name |-> "robustness", method |-> "assess_robustness"],
      [name |-> "explainability", method |-> "assess_explainability"]>>

\* __init__: every self.<method> of the dict literal is looked up
InitPrinciples ==
    IF \A i \in 1..Len(PrincipleRegistry) : HasMethod(PrincipleRegistry[i].method)
    THEN [ok |-> TRUE, principles |-> PrincipleRegistry]
    ELSE [ok |-> FALSE, principles |-> <<>>]

\* the keyword arguments evaluate passes to every assessment function
EvaluateKwargs ==
    {"model", "data", "sensitive_attributes", "documentation",
     "governance_structure", "audit_trail", "data_handling_procedures",
     "use_case", "risk_assessment", "test_data", "explainability_method"}

\* the parameters the assessment methods of the class declare
MethodParams(method) ==
    CASE method = "assess_fairness" -> {"model", "data", "sensitive_attributes"}
      [] method = "assess_transparency" -> {"model", "documentation"}
      [] method = "assess_privacy" -> {"data_handling_procedures"}
      [] method = "assess_robustness" -> {"model", "test_data"}

\* a call with a keyword argument the method does not declare is a TypeError
AcceptsKwargs(method) == EvaluateKwargs \subseteq MethodParams(method)

\* AIEthicsFramework().evaluate(...) is called
CallEvaluate ==
    /\ pc = "idle"
    /\ entry' = "evaluate"
    /\ pc' = "construct"
    /\ UNCHANGED <<outcome, result, documentation>>
    /\ ChecklistUnchanged

\* the constructor runs, then the loop of evaluate over self.principles
ConstructAndEvaluate ==
    /\ pc = "construct"
    /\ LET fw == InitPrinciples
       IN IF ~fw.ok
          THEN /\ Raise("AttributeError")
               /\ UNCHANGED principles
          ELSE /\ principles' = fw.principles
               /\ IF \E i \in 1..Len(fw.principles) :
                        ~AcceptsKwargs(fw.principles[i].method)
                  THEN Raise("TypeError")
                  ELSE /\ pc' = "done"
                       /\ outcome' = "returned"
                       /\ result' = [kind |-> "dict",
                                     keys |-> {fw.principles[i].name :
                                                 i \in 1..Len(fw.principles)}]
    /\ UNCHANGED <<entry, model, data, sensitive_attributes, predictions,
                   predLog, documentation>>
    /\ UNCHANGED FairnessLocals
    /\ UNCHANGED RobustnessLocals

Init ==
    /\ entry = "none"
    /\ pc = "idle"
    /\ outcome = "running"
    /\ result = None
    /\ model = [kind |-> "opaque", label |-> 0]
    /\ data = <<>>
    /\ sensitive_attributes = <<>>
    /\ predictions = <<>>
    /\ predLog = <<>>
    /\ attr_idx = 1
    /\ group_acceptance_rates = EmptyDict
    /\ demographic_parity = EmptyDict
    /\ fairness_metrics = EmptyDict
    /\ test_data = <<>>
    /\ perturbed_data = <<>>
    /\ original_predictions = <<>>
    /\ perturbed_predictions = <<>>
    /\ checklist = <<>>
    /\ documentation = <<>>
    /\ principles = <<>>

Next ==
    \/ CallAssessFairness
    \/ DPPredict
    \/ DPAttribute
    \/ DPReturn
    \/ EqualOpportunityLookup
    \/ CallAssessRobustness
    \/ Perturb
    \/ PredictOriginal
    \/ PredictPerturbed
    \/ AdversarialScore
    \/ OutOfDistributionLookup
    \/ CheckModelArchitectureDisclosure
    \/ CheckDataMinimization
    \/ CallEvaluate
    \/ ConstructAndEvaluate

Spec == Init /\ [][Next]_vars

(***************************************************************************)
(* Properties.                                                             *)
(***************************************************************************)
InUnit(p) == RLe(RZero, p) /\ RLe(p, ROne)

Clamp01(p) == IF RLe(p, RZero) THEN RZero ELSE IF RLe(ROne, p) THEN ROne ELSE p

RDiv(p, q) == RNorm(<<p[1] * q[2], p[2] * q[1]>>)

\* the vector the one predict call of the demographic parity computation
\* returned
FirstPrediction == predLog[1].ret

\* the mean of the predictions at exactly the indices whose value of a is g
RateOf(a, g, preds) ==
    LET idx == {i \in 1..Len(data) : data[i][a] = g}
    IN RNorm(<<SumOver(preds, idx), Cardinality(idx)>>)

GroupsOf(a) == {data[i][a] : i \in 1..Len(data)}

RatesOf(a, preds) == {RateOf(a, g, preds) : g \in GroupsOf(a)}

\* C1: the demographic parity score of every requested attribute is
\* 1 - (max group rate - min group rate) clamped to [0,1], a group's rate
\* being the mean of the predictions at the indices of that group.
C1_ParityIsClampedSpread ==
    \A a \in DOMAIN demographic_parity :
        demographic_parity[a] =
            Clamp01(RSub(ROne, RSub(PyMax(RatesOf(a, predictions)),
                                    PyMin(RatesOf(a, predictions)))))

DisparateImpactOf(a, preds) ==
    LET rates == RatesOf(a, preds)
    IN IF Cardinality(GroupsOf(a)) = 1 \/ PyMax(rates) = RZero THEN ROne
       ELSE RDiv(PyMin(rates), PyMax(rates))

\* C3: when predict does not fail, assess_fairness completes with a report
\* of demographic_parity, equal_opportunity and disparate_impact, whose
\* disparate impact of every requested attribute is min rate / max rate
\* (1 when the max rate is zero or the attribute has a single group).
C3_FairnessReportComplete ==
    (entry = "assess_fairness" /\ pc = "done" /\ outcome # "PredictError")
        => /\ outcome = "returned"
           /\ result.kind = "report"
           /\ DOMAIN result.val =
                 {"demographic_parity", "equal_opportunity", "disparate_impact"}
           /\ \A i \in 1..Len(sensitive_attributes) :
                 result.val["disparate_impact"][sensitive_attributes[i]] =
                     DisparateImpactOf(sensitive_attributes[i], predictions)

\* how many times predict was given the object named arg
PredictCalls(arg) == Cardinality({i \in 1..Len(predLog) : predLog[i].arg = arg})

\* C4: the adversarial robustness score is the fraction of records whose
\* predicted label is the same for the original and the perturbed dataset,
\* so it lies in [0,1]; it is 1 for a model that answers one label for every
\* input; predict is given the original dataset exactly once.
C4_AdversarialScoreIsAgreement ==
    /\ entry = "assess_robustness" => PredictCalls("test_data") <= 1
    /\ (entry = "assess_robustness" /\ checklist # <<>>)
        => LET score == checklist[1]
               same == {i \in 1..Len(test_data) :
                           predLog[1].ret[i] = predLog[2].ret[i]}
           IN /\ predLog[1].arg = "test_data"
              /\ predLog[2].arg = "perturbed_data"
              /\ score[1] * Len(test_data) = Cardinality(same) * score[2]
              /\ InUnit(score)
              /\ model.kind = "const" => score = ROne
              /\ PredictCalls("test_data") = 1

\* a constant model was scored on a dataset that the noise changed
C4_Witness ==
    /\ entry = "assess_robustness"
    /\ checklist # <<>>
    /\ model.kind = "const"
    /\ Len(test_data) >= 2
    /\ perturbed_data # test_data

\* C5: when predict does not fail, assess_robustness returns the mean of
\* the three sub-scores, each in [0,1], so the result is in [0,1].
C5_RobustnessIsMeanOfThree ==
    (entry = "assess_robustness" /\ pc = "done" /\ outcome # "PredictError")
        => /\ outcome = "returned"
           /\ result.kind = "score"
           /\ Len(checklist) = 3
           /\ \A i \in 1..3 : InUnit(checklist[i])
           /\ result.val =
                 RDiv(RAdd(RAdd(checklist[1], checklist[2]), checklist[3]),
                      <<3, 1>>)
           /\ InUnit(result.val)

\* C6: the perturbed dataset has, in every record, the same value of the
\* sensitive attribute field as the original.
C6_SensitiveFieldsPassThrough ==
    (entry = "assess_robustness" /\ pc # "perturb")
        => /\ Len(perturbed_data) = Len(test_data)
           /\ \A i \in 1..Len(test_data) : perturbed_data[i].s = test_data[i].s

SevenPrinciples ==
    {"fairness", "transparency", "accountability", "privacy", "safety",
     "robustness", "explainability"}

\* C7: evaluate on a constructed framework returns a mapping whose keys are
\* exactly the seven principle names.
C7_EvaluateReturnsSevenPrinciples ==
    (entry = "evaluate" /\ pc = "done")
        => /\ outcome = "returned"
           /\ result.kind = "dict"
           /\ result.keys = SevenPrinciples

\* C8: when a predict call raises, the assessment fails with that error:
\* it is the last predict call, and nothing is returned.
C8_PredictErrorFailsCall ==
    \A i \in 1..Len(predLog) :
        predLog[i].raised
            => /\ i = Len(predLog)
               /\ pc = "done"
               /\ outcome = "PredictError"
               /\ result = None

\* the second predict call of the adversarial check raised
C8_Witness ==
    /\ entry = "assess_robustness"
    /\ Len(predLog) = 2
    /\ predLog[2].raised

\* two characters are the same letter up to case
SameLetter(c, d) ==
    \/ c = d
    \/ c \in DOMAIN LowerOf /\ LowerOf[c] = d
    \/ d \in DOMAIN LowerOf /\ LowerOf[d] = c

\* keyword k occurs in text t as a substring, compared case-insensitively
OccursIgnoringCase(k, t) ==
    \E i \in 0..(Len(t) - Len(k)) :
        \A j \in 1..Len(k) : SameLetter(t[i + j], k[j])

KeywordsOfEntry ==
    IF entry = "_check_model_architecture_disclosure"
    THEN ArchitectureKeywords ELSE MinimizationKeywords

\* C9: a checklist check returns the number of its keywords that occur in
\* the text, ignoring case, divided by the number of keywords: a value in
\* [0,1], 0 when no keyword occurs and 1 when all do.
C9_KeywordCoverage ==
    (entry \in {"_check_model_architecture_disclosure",
                "_check_data_minimization"} /\ pc = "done")
        => LET kws == KeywordsOfEntry
               hits == Cardinality({j \in 1..Len(kws) :
                                      OccursIgnoringCase(kws[j], documentation)})
           IN /\ outcome = "returned"
              /\ result.val[1] * Len(kws) = hits * result.val[2]
              /\ InUnit(result.val)
              /\ hits = 0 => result.val = RZero
              /\ hits = Len(kws) => result.val = ROne

\* a text that holds every architecture keyword, some in capitals
C9_Witness ==
    /\ entry = "_check_model_architecture_disclosure"
    /\ pc = "done"
    /\ result.val = ROne
    /\ documentation # Lower(documentation)

\* C10: one demographic parity computation calls predict exactly once, on
\* the full dataset and before any group rate exists, and every group rate
\* and score is computed from the vector that call returned.
C10_SinglePredictReused ==
    entry = "assess_fairness"
        => /\ Len(predLog) <= 1
           /\ pc = "dp_predict"
                 => /\ predLog = <<>>
                    /\ DOMAIN group_acceptance_rates = {}
                    /\ DOMAIN demographic_parity = {}
           /\ (pc # "dp_predict" /\ outcome # "PredictError")
                 => /\ Len(predLog) = 1
                    /\ predLog[1].arg = "data"
                    /\ Len(FirstPrediction) = Len(data)
                    /\ \A a \in DOMAIN demographic_parity :
                          demographic_parity[a] =
                              RSub(ROne, RSub(PyMax(RatesOf(a, FirstPrediction)),
                                              PyMin(RatesOf(a, FirstPrediction))))
                    /\ attr_idx > 1
                          => LET a == sensitive_attributes[attr_idx - 1]
                             IN /\ DOMAIN group_acceptance_rates = GroupsOf(a)
                                /\ \A g \in GroupsOf(a) :
                                      group_acceptance_rates[g] =
                                          RateOf(a, g, FirstPrediction)

\* two attributes, each with at least two groups, were scored by an opaque
\* model
C10_Witness ==
    /\ entry = "assess_fairness"
    /\ model.kind = "opaque"
    /\ DOMAIN demographic_parity = {"region", "gender"}
    /\ Cardinality(GroupsOf("region")) = 3
    /\ Cardinality(GroupsOf("gender")) = 2

====
